---- MODULE Spec2Model ----
(***************************************************************************)
(* A model of generate_feed.py: the <main> text extractor                  *)
(* (_MainTextExtractor), the summary lookup (_extract_summary_from_html),  *)
(* the tag read (get_audio_metadata) and the feed pipeline (generate_feed).*)
(*                                                                         *)
(* Strings the program inspects character by character (the extractor's    *)
(* buffer, file names) are sequences of one-character strings.  An         *)
(* optional value (Python's None or a value) is <<>> or <<value>>.         *)
(***************************************************************************)
EXTENDS Integers, Sequences, FiniteSets, TLC

VARIABLES
    parser,     \* the _MainTextExtractor object: in_main, chunks, anchor_stack
    fed,        \* the parser events delivered so far, oldest first
    result,     \* what text() returned, <<>> while it has not been called
    config,     \* config.json: missing, unreadable, or its JSON object
    files,      \* the names of the audio and other entries of the subfolder
    tags,       \* audio file name -> what reading its tags gives
    html,       \* html file name -> the state of that file
    feed_xml,   \* feed.xml: None, or the document it holds
    pc,         \* where generate_feed is: start, loop, returned, raised
    audio_files,\* the sorted list of audio file names
    idx,        \* the position of the for loop in audio_files
    channel,    \* the children of the channel element built so far
    log,        \* the lines printed
    reads,      \* the audio and html files opened in this run
    written,    \* every write of feed.xml: the run and the document written
    feed_before,\* feed.xml as it was when this run started
    clock,      \* the wall clock, in seconds
    runs        \* the number of runs started

extractorVars == <<parser, fed, result>>

folderVars == <<config, files, tags, html>>

runVars ==
    <<feed_xml, pc, audio_files, idx, channel, log, reads, written,
      feed_before, clock, runs>>

vars == <<extractorVars, folderVars, runVars>>

----------------------------------------------------------------------------
(* Bounds *)

MaxEvents == 4
MaxFiles == 2
MaxClock == 1

----------------------------------------------------------------------------
(* Optional values and characters *)

None == <<>>
Some(v) == <<v>>

\* str.lower() on the tag and attribute names the model feeds.
Lower(s) ==
    CASE s = "MAIN" -> "main"
      [] s = "A" -> "a"
      [] s = "P" -> "p"
      [] s = "HREF" -> "href"
      [] OTHER -> s

\* The characters str.strip() removes.
Whitespace == {" ", "\t", "\n", "\r", "\f"}

\* The characters str.splitlines() breaks a line at.
LineBreaks == {"\n", "\r", "\f"}

RECURSIVE Concat(_)
\* ''.join(list)
Concat(list) ==
    IF list = <<>> THEN <<>> ELSE Head(list) \o Concat(Tail(list))

RECURSIVE LStrip(_)
LStrip(s) ==
    IF s # <<>> /\ Head(s) \in Whitespace THEN LStrip(Tail(s)) ELSE s

RECURSIVE RStrip(_)
RStrip(s) ==
    IF s # <<>> /\ s[Len(s)] \in Whitespace
    THEN RStrip(SubSeq(s, 1, Len(s) - 1))
    ELSE s

\* str.strip()
Strip(s) == RStrip(LStrip(s))

RECURSIVE SplitFrom(_, _)
\* The lines of s, cur being the line read so far.  "\r\n" is one break; a
\* break at the very end opens no further line.
SplitFrom(s, cur) ==
    IF s = <<>> THEN (IF cur = <<>> THEN <<>> ELSE <<cur>>)
    ELSE IF Head(s) \in LineBreaks
    THEN LET rest == IF Head(s) = "\r" /\ Len(s) >= 2 /\ s[2] = "\n"
                     THEN Tail(Tail(s)) ELSE Tail(s)
         IN <<cur>> \o SplitFrom(rest, <<>>)
    ELSE SplitFrom(Tail(s), Append(cur, Head(s)))

\* str.splitlines()
Splitlines(s) == SplitFrom(s, <<>>)

RECURSIVE JoinNewline(_)
\* '\n'.join(list)
JoinNewline(list) ==
    IF list = <<>> THEN <<>>
    ELSE IF Len(list) = 1 THEN Head(list)
    ELSE Head(list) \o <<"\n">> \o JoinNewline(Tail(list))

MapStrip(list) == [i \in 1..Len(list) |-> Strip(list[i])]

RECURSIVE DropEmpty(_)
\* [l for l in lines if l != '' or (l == '' and False)]
DropEmpty(list) ==
    IF list = <<>> THEN <<>>
    ELSE IF Head(list) # <<>> THEN <<Head(list)>> \o DropEmpty(Tail(list))
    ELSE DropEmpty(Tail(list))

----------------------------------------------------------------------------
(* _MainTextExtractor *)

BlockOpen ==
    {"p", "div", "section", "article", "li", "br",
     "h1", "h2", "h3", "h4", "h5", "h6"}

BlockClose == {"p", "div", "section", "article", "li"}

NewParser == [in_main |-> FALSE, chunks |-> <<>>, anchor_stack |-> <<>>]

RECURSIVE FindHref(_)
\* The value of the first attribute named href, None when there is none.
\* An attribute is <<name, optional value>>.
FindHref(attrs) ==
    IF attrs = <<>> THEN None
    ELSE IF Lower(Head(attrs)[1]) = "href" THEN Head(attrs)[2]
    ELSE FindHref(Tail(attrs))

\* Python's truth value of an href: neither None nor ''.
Truthy(href) == href # None /\ href[1] # <<>>

\* handle_data without its test of the flag.
handle_data_unguarded(p, data) == [p EXCEPT !.chunks = Append(@, data)]

\* CloseAnchor taking the oldest open anchor instead of the newest.
CloseAnchorOldest(p) ==
    IF p.anchor_stack # <<>>
    THEN LET href == Head(p.anchor_stack)
             popped == Tail(p.anchor_stack)
         IN IF Truthy(href)
            THEN [p EXCEPT !.anchor_stack = popped,
                           !.chunks = Append(@, <<" ", "(">> \o href[1] \o <<")">>)]
            ELSE [p EXCEPT !.anchor_stack = popped]
    ELSE p

\* CompactLines keeping the empty lines.
CompactLinesKeepEmpty(lines) == lines

StartSetsMain(p, tag) ==
    IF Lower(tag) = "main" THEN [p EXCEPT !.in_main = TRUE] ELSE p

handle_starttag(p, tag, attrs) ==
    LET p1 == StartSetsMain(p, tag)
        p2 == IF p1.in_main /\ Lower(tag) \in BlockOpen
              THEN [p1 EXCEPT !.chunks = Append(@, <<"\n">>)]
              ELSE p1
    IN IF p2.in_main /\ Lower(tag) = "a"
       THEN [p2 EXCEPT !.anchor_stack = Append(@, FindHref(attrs))]
       ELSE p2

CloseAnchor(p) ==
    IF p.anchor_stack # <<>>
    THEN LET href == p.anchor_stack[Len(p.anchor_stack)]
             popped == SubSeq(p.anchor_stack, 1, Len(p.anchor_stack) - 1)
         IN IF Truthy(href)
            THEN [p EXCEPT !.anchor_stack = popped,
                           !.chunks = Append(@, <<" ", "(">> \o href[1] \o <<")">>)]
            ELSE [p EXCEPT !.anchor_stack = popped]
    ELSE p

EndClearsMain(p, tag) ==
    IF Lower(tag) = "main" THEN [p EXCEPT !.in_main = FALSE] ELSE p

handle_endtag(p, tag) ==
    LET p1 == IF p.in_main /\ Lower(tag) \in BlockClose
              THEN [p EXCEPT !.chunks = Append(@, <<"\n">>)]
              ELSE p
        p2 == IF p1.in_main /\ Lower(tag) = "a" THEN CloseAnchor(p1) ELSE p1
    IN EndClearsMain(p2, tag)

handle_data(p, data) ==
    IF p.in_main THEN [p EXCEPT !.chunks = Append(@, data)] ELSE p

CompactLines(lines) == DropEmpty(lines)

text(p) ==
    LET raw == Concat(p.chunks)
        lines == MapStrip(Splitlines(raw))
        compact == JoinNewline(CompactLines(lines))
    IN Strip(compact)

----------------------------------------------------------------------------
(* The events HTMLParser.feed delivers to the handlers *)

StartEvent(tag, attrs) == [type |-> "start", tag |-> tag, attrs |-> attrs]
EndEvent(tag) == [type |-> "end", tag |-> tag]
DataEvent(data) == [type |-> "data", data |-> data]

StartTags == {"main", "MAIN", "p", "br", "a"}
EndTags == {"main", "p", "a"}

AttrChoices ==
    { <<>>,
      << <<"href", Some(<<"u">>)>> >>,
      << <<"href", Some(<<>>)>> >>,
      << <<"class", Some(<<"c">>)>>, <<"HREF", Some(<<"v">>)>> >> }

DataChoices ==
    { <<"x">>, <<"x", "\n", " ", "\n">>, <<" ", "y", "\f", "z", " ">> }

dispatch(p, e) ==
    CASE e.type = "start" -> handle_starttag(p, e.tag, e.attrs)
      [] e.type = "end" -> handle_endtag(p, e.tag)
      [] e.type = "data" -> handle_data(p, e.data)

RECURSIVE feed(_, _)
\* HTMLParser.feed on a whole document, given as its events.
feed(p, events) ==
    IF events = <<>> THEN p ELSE feed(dispatch(p, Head(events)), Tail(events))

----------------------------------------------------------------------------
(* File names *)

\* ord() of the characters file names are made of.
Ord(c) ==
    CASE c = "." -> 46
      [] c = "3" -> 51
      [] c = "4" -> 52
      [] c = "B" -> 66
      [] c = "a" -> 97
      [] c = "b" -> 98
      [] c = "c" -> 99
      [] c = "d" -> 100
      [] c = "e" -> 101
      [] c = "f" -> 102
      [] c = "g" -> 103
      [] c = "h" -> 104
      [] c = "i" -> 105
      [] c = "j" -> 106
      [] c = "l" -> 108
      [] c = "m" -> 109
      [] c = "n" -> 110
      [] c = "o" -> 111
      [] c = "p" -> 112
      [] c = "s" -> 115
      [] c = "t" -> 116
      [] c = "v" -> 118
      [] c = "w" -> 119
      [] c = "x" -> 120

RECURSIVE StrLess(_, _)
\* str.__lt__: the order list.sort() uses.
StrLess(a, b) ==
    IF b = <<>> THEN FALSE
    ELSE IF a = <<>> THEN TRUE
    ELSE IF Head(a) = Head(b) THEN StrLess(Tail(a), Tail(b))
    ELSE Ord(Head(a)) < Ord(Head(b))

\* str.endswith(suffix)
EndsWith(s, suffix) ==
    /\ Len(s) >= Len(suffix)
    /\ SubSeq(s, Len(s) - Len(suffix) + 1, Len(s)) = suffix

AudioSuffixes ==
    { <<".", "m", "p", "3">>, <<".", "m", "4", "a">>, <<".", "w", "a", "v">> }

\* f.endswith(('.mp3', '.m4a', '.wav'))
IsAudioName(f) == \E suffix \in AudioSuffixes : EndsWith(f, suffix)

\* os.path.splitext: the name is cut before its last dot, unless only dots
\* come before that dot; <<root, ext>>.
Splitext(name) ==
    LET dots == { i \in 1..Len(name) :
                    /\ name[i] = "."
                    /\ \E j \in 1..(i - 1) : name[j] # "." }
    IN IF dots = {} THEN <<name, <<>> >>
       ELSE LET i == CHOOSE d \in dots : \A e \in dots : e <= d
            IN <<SubSeq(name, 1, i - 1), SubSeq(name, i, Len(name))>>

DotHtml == <<".", "h", "t", "m", "l">>

\* base_name + '.html'
HtmlPath(audio_file) == Splitext(audio_file)[1] \o DotHtml

ConfigJson == <<"c", "o", "n", "f", "i", "g", ".", "j", "s", "o", "n">>
FeedXml == <<"f", "e", "e", "d", ".", "x", "m", "l">>

RECURSIVE Insert(_, _)
Insert(x, sorted) ==
    IF sorted = <<>> THEN <<x>>
    ELSE IF StrLess(x, Head(sorted)) THEN <<x>> \o sorted
    ELSE <<Head(sorted)>> \o Insert(x, Tail(sorted))

RECURSIVE SortedList(_)
SortedList(list) ==
    IF list = <<>> THEN <<>> ELSE Insert(Head(list), SortedList(Tail(list)))

\* list.sort() skipped: the list stays in listing order.
SortSkipped(list) == list

\* audio_files.sort()
Sort(list) == SortedList(list)

RECURSIVE Orders(_)
\* Every order in which os.listdir can return the names of S.
Orders(S) ==
    IF S = {} THEN { <<>> }
    ELSE UNION { { <<x>> \o rest : rest \in Orders(S \ {x}) } : x \in S }

----------------------------------------------------------------------------
(* The subfolder *)

AudioUniverse ==
    { <<"a", "b", ".", "m", "p", "3">>,
      <<"a", "a", ".", "m", "4", "a">>,
      <<"B", ".", "w", "a", "v">> }

OtherUniverse ==
    { <<"m", "p", "3">>, <<"a", "a", ".", "t", "x", "t">> }

NameUniverse == AudioUniverse \cup OtherUniverse

HtmlUniverse == { HtmlPath(f) : f \in AudioUniverse }

\* What MP3(file_path, ID3=EasyID3) gives: it raises, or tags and a length.
TagChoices ==
    { [ok |-> FALSE, title |-> None, artist |-> None, album |-> None, length |-> 0],
      [ok |-> TRUE, title |-> None, artist |-> None, album |-> None, length |-> 61],
      [ok |-> TRUE, title |-> Some(<<"T">>), artist |-> Some(<<"R">>),
       album |-> Some(<<"L">>), length |-> 7] }

NoDoc == <<>>

DocWithMain ==
    << StartEvent("main", <<>>),
       StartEvent("p", <<>>),
       DataEvent(<<" ", "y", "\f", "z", " ">>),
       EndEvent("p"),
       StartEvent("a", << <<"href", Some(<<"u">>)>> >>),
       DataEvent(<<"x">>),
       EndEvent("a"),
       EndEvent("main") >>

DocWithoutMain ==
    << StartEvent("p", <<>>), DataEvent(<<"x">>), EndEvent("p") >>

\* An html file: absent; present but reading or parsing it raises; or
\* present with a document.
HtmlChoices ==
    { [exists |-> FALSE, raises |-> FALSE, doc |-> NoDoc],
      [exists |-> TRUE, raises |-> TRUE, doc |-> NoDoc],
      [exists |-> TRUE, raises |-> FALSE, doc |-> DocWithMain],
      [exists |-> TRUE, raises |-> FALSE, doc |-> DocWithoutMain] }

AbsentHtml == [exists |-> FALSE, raises |-> FALSE, doc |-> NoDoc]

\* config.json: missing, present but open or json.load raises, or an object.
ConfigChoices ==
    { [state |-> "missing", title |-> None],
      [state |-> "unreadable", title |-> None],
      [state |-> "ok", title |-> Some(<<"S">>)] }

\* os.path.exists(path), for the paths the program asks about.
Exists(path) ==
    \/ path = ConfigJson /\ config.state # "missing"
    \/ path = FeedXml /\ feed_xml # None
    \/ path \in files
    \/ path \in DOMAIN html /\ html[path].exists

\* The names os.listdir(subfolder_path) returns, as a set.
Listing == { n \in NameUniverse \cup HtmlUniverse \cup {ConfigJson, FeedXml} : Exists(n) }

----------------------------------------------------------------------------
(* The feed document *)

El(tag, txt, attrib, children) ==
    [tag |-> tag, text |-> txt, attrib |-> attrib, children |-> children]

\* SubElement(parent, tag).text = text
TextEl(tag, txt) == El(tag, Some(txt), <<>>, <<>>)

\* str(n)
Str(n) == <<ToString(n)>>

\* config.get(key, default)
Get(opt, default) == IF opt = None THEN default ELSE opt[1]

\* The channel's own children, from the configuration.  The configurations
\* modelled carry a title and no other key, so the other children take their
\* defaults and no itunes:image is added.
ChannelHead(cfg) ==
    << TextEl("title", Get(cfg.title, <<"Podcast">>)),
       TextEl("description", <<"A podcast">>),
       TextEl("link", <<"https://example.com">>),
       TextEl("language", <<"en-us">>),
       TextEl("itunes:author", <<"Unknown">>),
       TextEl("itunes:summary", <<"A podcast">>) >>

\* The command line: subfolder, repo_owner, repo_name.
subfolder_path == "pod"
repo_owner == "owner"
repo_name == "repo"

EnclosureUrl(audio_file) ==
    <<"https://raw.githubusercontent.com", repo_owner, repo_name, "main",
      subfolder_path, audio_file>>

\* os.path.getsize(file_path)
Getsize(audio_file) == 1000 * Len(audio_file) + tags[audio_file].length

----------------------------------------------------------------------------
(* _extract_summary_from_html and get_audio_metadata *)

\* '' for an absent file and for a file whose reading or parsing raises (the
\* except clause); otherwise the text of the parsed document.
_extract_summary_from_html(html_path) ==
    IF ~Exists(html_path) THEN <<>>
    ELSE IF html[html_path].raises THEN <<>>
    ELSE text(feed(NewParser, html[html_path].doc))

get_audio_metadata(audio_file) ==
    LET audio == tags[audio_file]
    IN [title |-> Get(audio.title, Splitext(audio_file)[1]),
        artist |-> Get(audio.artist, <<"Unknown">>),
        album |-> Get(audio.album, <<"Unknown">>),
        duration |-> audio.length]

\* The fallback left out: an empty summary stays empty.
FallbackMissing(summary_text, metadata) == summary_text

\* if not summary_text: summary_text = metadata.get('description', metadata['title'])
Fallback(summary_text, metadata) ==
    IF summary_text = <<>> THEN metadata.title ELSE summary_text

\* The children of one item, in the order the program appends them.
ItemChildren(audio_file, metadata, summary_text, now) ==
    << TextEl("title", metadata.title),
       TextEl("description", summary_text),
       TextEl("itunes:summary", summary_text),
       TextEl("description", summary_text),
       TextEl("itunes:summary", summary_text),
       TextEl("pubDate", Str(now)),
       El("enclosure", None,
          << <<"url", EnclosureUrl(audio_file)>>,
             <<"type", "audio/mpeg">>,
             <<"length", Str(Getsize(audio_file))>> >>, <<>>),
       TextEl("itunes:duration", Str(metadata.duration)) >>

\* feed.xml opened for appending: the new document follows the old one.
FileAppended(old, document) ==
    IF old = None THEN Some(document) ELSE Some(old[1] \o document)

\* open(feed_path, 'w') and f.write(pretty_xml): the file holds the document,
\* kept here as the element tree that tostring and toprettyxml serialise.
FileWritten(old, document) == Some(document)

\* The write placed inside the loop: it runs after the first file.
LoopDoneEarly == idx > 1 \/ idx > Len(audio_files)

\* The for loop has run through audio_files.
LoopDone == idx > Len(audio_files)

----------------------------------------------------------------------------
(* generate_feed, step by step *)

\* Lines 91-94: no config.json; print and return.
ConfigMissing ==
    /\ pc = "start"
    /\ ~Exists(ConfigJson)
    /\ log' = Append(log, "Config file not found")
    /\ pc' = "returned"
    /\ UNCHANGED <<feed_xml, audio_files, idx, channel, reads, written,
                   feed_before, clock, runs>>
    /\ UNCHANGED <<extractorVars, folderVars>>

\* Lines 96-97: open or json.load raises; nothing catches it.
ConfigUnreadable ==
    /\ pc = "start"
    /\ Exists(ConfigJson)
    /\ config.state = "unreadable"
    /\ pc' = "raised"
    /\ UNCHANGED <<feed_xml, audio_files, idx, channel, log, reads, written,
                   feed_before, clock, runs>>
    /\ UNCHANGED <<extractorVars, folderVars>>

\* Lines 96-120: the configuration is loaded, the channel built, the audio
\* files found and sorted.  The comprehension keeps the listing's order, so
\* the unsorted list is the audio names in any order.
Discover ==
    /\ pc = "start"
    /\ Exists(ConfigJson)
    /\ config.state = "ok"
    /\ \E listed \in Orders({ f \in Listing : IsAudioName(f) }) :
         audio_files' = Sort(listed)
    /\ channel' = ChannelHead(config)
    /\ idx' = 1
    /\ pc' = "loop"
    /\ UNCHANGED <<feed_xml, log, reads, written, feed_before, clock, runs>>
    /\ UNCHANGED <<extractorVars, folderVars>>

\* Line 124 raising: the tag read fails and nothing catches it.
TagReadFails ==
    /\ pc = "loop"
    /\ ~LoopDone
    /\ ~tags[audio_files[idx]].ok
    /\ reads' = reads \cup {audio_files[idx]}
    /\ pc' = "raised"
    /\ UNCHANGED <<feed_xml, audio_files, idx, channel, log, written,
                   feed_before, clock, runs>>
    /\ UNCHANGED <<extractorVars, folderVars>>

\* Lines 122-147: one pass of the loop body.  The summary is computed twice,
\* the second result replacing the first.
ProcessFile ==
    /\ pc = "loop"
    /\ ~LoopDone
    /\ tags[audio_files[idx]].ok
    /\ \E tick \in 0..(IF clock < MaxClock THEN 1 ELSE 0) :
         LET audio_file == audio_files[idx]
             metadata == get_audio_metadata(audio_file)
             html_summary_path == HtmlPath(audio_file)
             first == Fallback(_extract_summary_from_html(html_summary_path), metadata)
             summary_text == Fallback(_extract_summary_from_html(html_summary_path), metadata)
             item == El("item", None, <<>>,
                        ItemChildren(audio_file, metadata, summary_text, clock + tick))
         IN /\ channel' = Append(channel, item)
            /\ clock' = clock + tick
            /\ reads' = reads \cup {audio_file} \cup
                          (IF Exists(html_summary_path) THEN {html_summary_path} ELSE {})
    /\ idx' = idx + 1
    /\ UNCHANGED <<feed_xml, pc, audio_files, log, written, feed_before, runs>>
    /\ UNCHANGED <<extractorVars, folderVars>>

\* Lines 149-157: the document is written to feed.xml.
WriteFeed ==
    /\ pc = "loop"
    /\ LoopDone
    /\ feed_xml' = FileWritten(feed_xml, channel)
    /\ written' = Append(written, [run |-> runs, document |-> feed_xml'[1]])
    /\ log' = Append(log, "Generated feed")
    /\ pc' = "returned"
    /\ UNCHANGED <<audio_files, idx, channel, reads, feed_before, clock, runs>>
    /\ UNCHANGED <<extractorVars, folderVars>>

\* Lines 159-166: the program is run once more on the same subfolder.
RunAgain ==
    /\ pc \in {"returned", "raised"}
    /\ runs = 1
    /\ runs' = 2
    /\ pc' = "start"
    /\ audio_files' = <<>>
    /\ idx' = 1
    /\ channel' = <<>>
    /\ reads' = {}
    /\ feed_before' = feed_xml
    /\ \E tick \in 0..(IF clock < MaxClock THEN 1 ELSE 0) : clock' = clock + tick
    /\ UNCHANGED <<feed_xml, log, written>>
    /\ UNCHANGED <<extractorVars, folderVars>>

OldFeed == << TextEl("title", <<"Old">>) >>

Init ==
    /\ parser = NewParser
    /\ fed = <<>>
    /\ result = None
    /\ config \in ConfigChoices
    /\ files \in { F \in SUBSET NameUniverse : Cardinality(F) <= MaxFiles }
    /\ tags \in [files \cap AudioUniverse -> TagChoices]
    /\ html \in [HtmlUniverse -> HtmlChoices]
    /\ \A h \in HtmlUniverse :
         (\A f \in files \cap AudioUniverse : HtmlPath(f) # h) => html[h] = AbsentHtml
    /\ feed_xml \in {None, Some(OldFeed)}
    /\ feed_before = feed_xml
    /\ pc = "start"
    /\ audio_files = <<>>
    /\ idx = 1
    /\ channel = <<>>
    /\ log = <<>>
    /\ reads = {}
    /\ written = <<>>
    /\ clock = 0
    /\ runs = 1

Next ==
    \/ ConfigMissing
    \/ ConfigUnreadable
    \/ Discover
    \/ TagReadFails
    \/ ProcessFile
    \/ WriteFeed
    \/ RunAgain

Spec == Init /\ [][Next]_vars

----------------------------------------------------------------------------
(* The extractor driven event by event *)

Scanning == result = None /\ Len(fed) < MaxEvents

StartTag ==
    /\ Scanning
    /\ \E tag \in StartTags :
         \E attrs \in (IF Lower(tag) = "a" THEN AttrChoices ELSE {<<>>}) :
            /\ parser' = handle_starttag(parser, tag, attrs)
            /\ fed' = Append(fed, StartEvent(tag, attrs))
    /\ UNCHANGED result
    /\ UNCHANGED <<folderVars, runVars>>

EndTag ==
    /\ Scanning
    /\ \E tag \in EndTags :
         /\ parser' = handle_endtag(parser, tag)
         /\ fed' = Append(fed, EndEvent(tag))
    /\ UNCHANGED result
    /\ UNCHANGED <<folderVars, runVars>>

Data ==
    /\ Scanning
    /\ \E data \in DataChoices :
         /\ parser' = handle_data(parser, data)
         /\ fed' = Append(fed, DataEvent(data))
    /\ UNCHANGED result
    /\ UNCHANGED <<folderVars, runVars>>

CallText ==
    /\ result = None
    /\ result' = Some(text(parser))
    /\ UNCHANGED <<parser, fed>>
    /\ UNCHANGED <<folderVars, runVars>>

\* The extractor alone: an empty subfolder, generate_feed not running.
InitExtractor ==
    /\ parser = NewParser
    /\ fed = <<>>
    /\ result = None
    /\ config = [state |-> "missing", title |-> None]
    /\ files = {}
    /\ tags = <<>>
    /\ html = [h \in HtmlUniverse |-> AbsentHtml]
    /\ feed_xml = None
    /\ feed_before = None
    /\ pc = "returned"
    /\ audio_files = <<>>
    /\ idx = 1
    /\ channel = <<>>
    /\ log = <<>>
    /\ reads = {}
    /\ written = <<>>
    /\ clock = 0
    /\ runs = 0

NextExtractor == StartTag \/ EndTag \/ Data \/ CallText

SpecExtractor == InitExtractor /\ [][NextExtractor]_vars

----------------------------------------------------------------------------
(* Properties of the extractor *)

Last(s) == s[Len(s)]

IsMainOpen(e) == e.type = "start" /\ Lower(e.tag) = "main"
IsMainClose(e) == e.type = "end" /\ Lower(e.tag) = "main"

RECURSIVE Depth(_)
\* How many main elements are open after the events: an opening tag opens
\* one, a closing tag closes the innermost open one.
Depth(events) ==
    IF events = <<>> THEN 0
    ELSE LET d == Depth(SubSeq(events, 1, Len(events) - 1))
         IN IF IsMainOpen(Last(events)) THEN d + 1
            ELSE IF IsMainClose(Last(events)) /\ d > 0 THEN d - 1
            ELSE d

NoMainOpened == \A i \in 1..Len(fed) : ~IsMainOpen(fed[i])

\* C4: when no opening main tag (in any letter case) has been delivered, the
\* buffer is empty and text() returns the empty string, whatever other
\* tags, anchors, closing main tags and text were delivered.
C4_NoMainEmpty ==
    NoMainOpened =>
        /\ parser.chunks = <<>>
        /\ text(parser) = <<>>
        /\ result \in {None, Some(<<>>)}

C4_Witness ==
    /\ NoMainOpened
    /\ result = Some(<<>>)
    /\ \E i, j, k \in 1..Len(fed) :
         /\ fed[i].type = "data"
         /\ fed[j].type = "start" /\ fed[j].tag = "p"
         /\ IsMainClose(fed[k])

\* The step that delivered a text node.
DataStep == Len(fed') = Len(fed) + 1 /\ Last(fed').type = "data"

\* C5: a text node delivered inside at least one open main element is
\* appended to the buffer, also when main elements are nested or follow one
\* another; a text node outside every main element leaves the buffer alone.
C5_TextInsideMainContributes ==
    [][DataStep =>
         IF Depth(fed) > 0
         THEN parser'.chunks = Append(parser.chunks, Last(fed').data)
         ELSE parser'.chunks = parser.chunks]_vars

\* The step that delivered a closing anchor tag while inside main.
AnchorCloseStep ==
    /\ Len(fed') = Len(fed) + 1
    /\ Last(fed').type = "end" /\ Lower(Last(fed').tag) = "a"
    /\ parser.in_main

\* C6: a closing anchor tag inside main pops the most recently opened anchor
\* still on the stack and appends " (href)" exactly when that href is present
\* and non-empty; with an empty stack it changes nothing.
C6_AnchorClose ==
    [][AnchorCloseStep =>
         LET stack == parser.anchor_stack
             n == Len(stack)
         IN IF n = 0
            THEN parser' = parser
            ELSE /\ parser'.anchor_stack = SubSeq(stack, 1, n - 1)
                 /\ parser'.in_main = parser.in_main
                 /\ IF stack[n] # None /\ stack[n] # Some(<<>>)
                    THEN parser'.chunks =
                           Append(parser.chunks,
                                  <<" ", "(">> \o stack[n][1] \o <<")">>)
                    ELSE parser'.chunks = parser.chunks]_vars

C6_Witness ==
    /\ Len(fed) = 4
    /\ IsMainOpen(fed[1])
    /\ fed[2] = StartEvent("a", << <<"class", Some(<<"c">>)>>, <<"HREF", Some(<<"v">>)>> >>)
    /\ fed[3] = DataEvent(<<"x">>)
    /\ fed[4] = EndEvent("a")
    /\ parser.chunks = << <<"x">>, <<" ", "(", "v", ")">> >>
    /\ parser.anchor_stack = <<>>

RECURSIVE SplitOnNewline(_, _)
\* The pieces of s between its "\n" characters, empty pieces included.
SplitOnNewline(s, cur) ==
    IF s = <<>> THEN <<cur>>
    ELSE IF Head(s) = "\n" THEN <<cur>> \o SplitOnNewline(Tail(s), <<>>)
    ELSE SplitOnNewline(Tail(s), Append(cur, Head(s)))

Normalized(s) ==
    s = <<>> \/
    LET pieces == SplitOnNewline(s, <<>>)
    IN \A i \in 1..Len(pieces) :
         /\ pieces[i] # <<>>
         /\ pieces[i][1] \notin Whitespace
         /\ Last(pieces[i]) \notin Whitespace

\* C7: whatever buffer the scan accumulated, the text() result has no empty
\* line, no line with leading or trailing whitespace and no leading or
\* trailing newline, so that runs of newline markers give one line break.
C7_TextNormalized == result # None => Normalized(result[1])

C7_Witness ==
    /\ result = Some(<<"x", "\n", "x">>)
    /\ \E i \in 1..(Len(parser.chunks) - 1) :
         /\ parser.chunks[i] = <<"x", "\n", " ", "\n">>
         /\ parser.chunks[i + 1] = <<"\n">>

----------------------------------------------------------------------------
(* Properties of generate_feed *)

Range(seq) == { seq[i] : i \in 1..Len(seq) }

IsItem(e) == e.tag = "item"

\* The item elements of a document, in document order.
Items(document) == SelectSeq(document, IsItem)

\* The children of an item that carry the given tag.
Children(item, tag) ==
    { i \in 1..Len(item.children) : item.children[i].tag = tag }

\* The audio file an item is about: the last part of its enclosure's url.
ItemFile(item) ==
    LET i == CHOOSE j \in Children(item, "enclosure") : TRUE
        url == item.children[i].attrib[1][2]
    IN url[Len(url)]

\* The writes of feed.xml made by the current run.
ThisRunWrites == { i \in 1..Len(written) : written[i].run = runs }

\* The current run returned after writing the feed.
Succeeded == pc = "returned" /\ ThisRunWrites # {}

\* a comes strictly before b in lexicographic order of character codes.
LexBefore(a, b) ==
    \E k \in 1..Len(b) :
       /\ \A i \in 1..(k - 1) : i <= Len(a) /\ a[i] = b[i]
       /\ \/ k > Len(a)
          \/ k <= Len(a) /\ Ord(a[k]) < Ord(b[k])

EndsInAudioExtension(n) ==
    /\ Len(n) >= 4
    /\ SubSeq(n, Len(n) - 3, Len(n)) \in
         { <<".", "m", "p", "3">>, <<".", "m", "4", "a">>, <<".", "w", "a", "v">> }

\* C1: after a successful run the feed's items are, one for one, the
\* directory entries whose name ends in .mp3, .m4a or .wav, in ascending
\* lexicographic order of file name, whatever order the listing came in.
C1_ItemsAreSortedAudioFiles ==
    Succeeded =>
        LET items == Items(feed_xml[1])
        IN /\ { ItemFile(items[i]) : i \in 1..Len(items) }
                 = { n \in Listing : EndsInAudioExtension(n) }
           /\ \A i, j \in 1..Len(items) :
                 i < j => LexBefore(ItemFile(items[i]), ItemFile(items[j]))

C1_Witness ==
    /\ Succeeded
    /\ Len(Items(feed_xml[1])) = 2
    /\ ItemFile(Items(feed_xml[1])[1]) = <<"B", ".", "w", "a", "v">>
    /\ ItemFile(Items(feed_xml[1])[2]) = <<"a", "a", ".", "m", "4", "a">>
    /\ \E h \in HtmlUniverse : html[h].exists

\* The title an episode is expected to carry: the tag title, else the file
\* name without its extension.
ExpectedTitle(f) ==
    IF tags[f].title # None THEN tags[f].title[1] ELSE Splitext(f)[1]

\* The text of the sibling html file's main elements, empty when the file is
\* absent, cannot be read or parsed, or has no text in main.
SiblingText(f) ==
    LET h == Splitext(f)[1] \o <<".", "h", "t", "m", "l">>
    IN IF html[h].exists /\ ~html[h].raises
       THEN text(feed(NewParser, html[h].doc))
       ELSE <<>>

ExpectedSummary(f) ==
    IF SiblingText(f) # <<>> THEN SiblingText(f) ELSE ExpectedTitle(f)

SummaryTags == {"description", "itunes:summary"}

\* C2: every description and itunes:summary of every item is the text
\* extracted from the sibling html file when that is non-empty, and the
\* episode title (tag title, else file name without extension) when the file
\* is absent, yields no text, or raises on reading or parsing.
C2_SummaryOrTitle ==
    \A n \in 1..Len(Items(channel)) :
       LET item == Items(channel)[n]
       IN \A tag \in SummaryTags :
            /\ Children(item, tag) # {}
            /\ \A i \in Children(item, tag) :
                 item.children[i].text = Some(ExpectedSummary(ItemFile(item)))

C2_Witness ==
    /\ Succeeded
    /\ \E n, m \in 1..Len(Items(feed_xml[1])) :
         LET a == Items(feed_xml[1])[n]
             b == Items(feed_xml[1])[m]
         IN /\ SiblingText(ItemFile(a)) # <<>>
            /\ \A i \in Children(a, "description") :
                 a.children[i].text = Some(SiblingText(ItemFile(a)))
            /\ html[HtmlPath(ItemFile(b))].raises
            /\ tags[ItemFile(b)].title = None
            /\ \A i \in Children(b, "description") :
                 b.children[i].text = Some(Splitext(ItemFile(b))[1])

\* C3: with config.json missing or unreadable, the run logs a message and
\* returns normally, feed.xml is as it was before the run, and no audio or
\* html file has been read.
C3_ConfigErrorReturns ==
    (config.state \in {"missing", "unreadable"} /\ pc # "start") =>
        /\ pc = "returned"
        /\ Len(log) = runs
        /\ feed_xml = feed_before
        /\ reads = {}

ItemTags ==
    {"title", "description", "itunes:summary", "pubDate", "enclosure",
     "itunes:duration"}

\* C8: every item has exactly one child of each of title, description,
\* itunes:summary, pubDate, enclosure and itunes:duration.
C8_ItemChildrenOnce ==
    \A n \in 1..Len(Items(channel)) :
       \A tag \in ItemTags :
          Cardinality(Children(Items(channel)[n], tag)) = 1

NotPubDate(e) == e.tag # "pubDate"

\* A document with the pubDate children of its items left out.
WithoutPubDate(document) ==
    [i \in 1..Len(document) |->
        [document[i] EXCEPT !.children = SelectSeq(@, NotPubDate)]]

BothRunsWrote ==
    Len(written) = 2 /\ written[1].run = 1 /\ written[2].run = 2

\* C9: two runs in a row on the same unchanged subfolder, the second finding
\* the first run's feed.xml, write the same document apart from the pubDate
\* values: the same items in the same order with the same other fields.
C9_RegenerationIdempotent ==
    BothRunsWrote =>
        WithoutPubDate(written[1].document) = WithoutPubDate(written[2].document)

C9_Witness ==
    /\ BothRunsWrote
    /\ Len(Items(written[2].document)) = 2
    /\ written[1].document # written[2].document
    /\ feed_xml = Some(written[2].document)

\* C10: a run writes feed.xml at most once and only after the loop has gone
\* through every audio file; once a tag read has failed the run has ended
\* with an error and feed.xml is as it was before the run.
C10_WriteOnlyAfterAllFiles ==
    /\ Cardinality(ThisRunWrites) <= 1
    /\ ThisRunWrites # {} =>
          /\ pc = "returned"
          /\ Range(audio_files) \subseteq reads
          /\ Len(Items(feed_xml[1])) = Len(audio_files)
    /\ (\E f \in reads \cap DOMAIN tags : ~tags[f].ok) =>
          /\ pc = "raised"
          /\ ThisRunWrites = {}
          /\ feed_xml = feed_before

C10_Witness ==
    /\ pc = "raised"
    /\ Len(Items(channel)) = 1
    /\ \E f \in reads \cap DOMAIN tags : ~tags[f].ok
    /\ feed_before # None
    /\ feed_xml = feed_before

====
